---- MODULE Spec2Model ----
(***************************************************************************)
(* GTrader: the REST gateway (api.py) over the in-memory snapshot          *)
(* gtrader_state, and the Myriad API client (myriad_client.py): its        *)
(* request builders and its retrying transport.                            *)
(*                                                                         *)
(* Six specifications share the variables:                                 *)
(*   Spec            the gateway's snapshot and its ingest handlers        *)
(*   SpecTrades      the snapshot's trade history and GET /trades          *)
(*   SpecConcurrent  ingest handlers of requests in flight together        *)
(*   SpecClient      the request builders of MyriadAPIClient               *)
(*   SpecTransport   one _make_request call, attempt by attempt            *)
(*   SpecProxy       the /myriad endpoints over client and transport       *)
(***************************************************************************)
EXTENDS Integers, Sequences, FiniteSets, TLC

VARIABLES
    phase,           \* api.py process: "created" | "serving" | "stopped"
    gtrader_state,   \* api.py:45 the global snapshot
    ingested,        \* history: decisions given to add_decision since the list was last replaced
    startedEmpty,    \* history: the list the ingested decisions were added to was empty
    call,            \* client: the request-builder call last made (its arguments)
    sent,            \* client: the _make_request invocations of that call
    outcome,         \* client: how that call ended
    t_state,         \* transport: "idle" | "inflight" | "returned" | "raised"
    t_method,        \* transport: HTTP method of the call
    t_total,         \* transport: Retry.total still available
    t_log,           \* transport: the responses received so far, in order
    t_result,        \* transport: what _make_request returned or raised
    trades_query,    \* the query of GET /trades, if that was the request last handled, else None
    trades_response, \* the list that GET /trades returned, else None
    p_state,         \* proxy endpoint: "idle" | "awaiting" | "responded"
    p_request,       \* proxy endpoint: the request being handled
    p_failure,       \* history: the exception the client raised to the handler, or None
    p_response,      \* proxy endpoint: the HTTP response of the handler
    inflight,        \* concurrent ingest: the requests received, each with its position
    loop,            \* concurrent ingest: the request whose handler holds the event loop, 0 if none
    traded           \* history: trades inserted since trade_history was last replaced

vars == <<phase, gtrader_state, ingested, startedEmpty, call, sent, outcome,
          t_state, t_method, t_total, t_log, t_result,
          trades_query, trades_response, p_state, p_request, p_failure, p_response,
          inflight, loop, traded>>

gatewayVars == <<phase, gtrader_state, ingested, startedEmpty>>
clientVars == <<call, sent, outcome>>
transportVars == <<t_state, t_method, t_total, t_log, t_result>>
readVars == <<trades_query, trades_response>>
proxyVars == <<p_state, p_request, p_failure, p_response>>
concVars == <<inflight, loop, traded>>

\* Optional[T]: None is the empty tuple, a present value v is <<v>>
None == <<>>
Some(v) == <<v>>

\* Python truthiness of an Optional[str]: None and "" are falsy
Truthy(s) == s /= None /\ s[1] /= ""

Min(a, b) == IF a < b THEN a ELSE b

(***************************************************************************)
(* Bounds of the model.                                                    *)
(***************************************************************************)
MaxDecisionCalls == 105   \* add_decision calls since the list was last replaced
MaxTrades == 2            \* add_trade calls
MaxRequests == 3          \* ingest requests in flight together

(***************************************************************************)
(* Gateway (api.py)                                                        *)
(***************************************************************************)
RecentLimit == 100

\* Python's list[:n]
Slice(s, n) == SubSeq(s, 1, Min(n, Len(s)))

\* Python's list.insert(0, x)
InsertHead(s, x) == <<x>> \o s

\* decision.dict() of the n-th decision handed to add_decision
Decision(n) == [timestamp |-> n, asset |-> IF n % 2 = 0 THEN "ETH" ELSE "BTC"]

TradeAssets == {"BTC", "btc", "ETH"}
TradeStatuses == {"filled", "cancelled"}

\* trade.dict()
Trade(a, s) == [asset |-> a, status |-> s]

\* a decisions list longer than the limit, as a caller of update_state may post it
OversizeDecisions == [i \in 1..(RecentLimit + 1) |-> [timestamp |-> 0 - i, asset |-> "SOL"]]

\* the bodies posted to /internal/update-state
StateDataInputs ==
    << [account_value |-> 1000],
       [status |-> "running", positions |-> <<"BTC-long">>],
       [recent_decisions |-> <<>>],
       [recent_decisions |-> OversizeDecisions],
       [trade_history |-> <<>>] >>

\* dict.update(other)
DictUpdate(d, other) ==
    [k \in DOMAIN d \cup DOMAIN other |-> IF k \in DOMAIN other THEN other[k] ELSE d[k]]

utcnow == "utcnow"

InitialState ==
    [status |-> "idle", last_update |-> None, account_value |-> 0,
     positions |-> <<>>, recent_decisions |-> <<>>, trade_history |-> <<>>,
     market_analyses |-> <<>>]

\* the request handled last is not GET /trades
NotARead ==
    /\ trades_query' = None
    /\ trades_response' = None

startup_event ==
    /\ phase = "created"
    /\ phase' = "serving"
    /\ gtrader_state' = [gtrader_state EXCEPT !.status = "running", !.last_update = Some(utcnow)]
    /\ UNCHANGED <<ingested, startedEmpty>>
    /\ NotARead
    /\ UNCHANGED <<clientVars, transportVars, proxyVars, concVars>>

shutdown_event ==
    /\ phase = "serving"
    /\ phase' = "stopped"
    /\ gtrader_state' = [gtrader_state EXCEPT !.status = "stopped"]
    /\ UNCHANGED <<ingested, startedEmpty>>
    /\ NotARead
    /\ UNCHANGED <<clientVars, transportVars, proxyVars, concVars>>

update_state(state_data) ==
    /\ phase = "serving"
    /\ gtrader_state' = [DictUpdate(gtrader_state, state_data) EXCEPT !.last_update = Some(utcnow)]
    /\ IF "recent_decisions" \in DOMAIN state_data
          THEN /\ ingested' = <<>>
               /\ startedEmpty' = (state_data.recent_decisions = <<>>)
          ELSE UNCHANGED <<ingested, startedEmpty>>
    /\ UNCHANGED phase
    /\ NotARead
    /\ UNCHANGED <<clientVars, transportVars, proxyVars, concVars>>

\* mutant: truncates before inserting
add_decision_truncate_first(decision) ==
    /\ phase = "serving"
    /\ Len(ingested) < MaxDecisionCalls
    /\ gtrader_state' =
          [gtrader_state EXCEPT !.recent_decisions =
              InsertHead(Slice(gtrader_state.recent_decisions, RecentLimit), decision)]
    /\ ingested' = Append(ingested, decision)
    /\ UNCHANGED <<phase, startedEmpty>>
    /\ NotARead
    /\ UNCHANGED <<clientVars, transportVars, proxyVars, concVars>>

add_decision(decision) ==
    /\ phase = "serving"
    /\ Len(ingested) < MaxDecisionCalls
    /\ gtrader_state' =
          [gtrader_state EXCEPT !.recent_decisions =
              Slice(InsertHead(gtrader_state.recent_decisions, decision), RecentLimit)]
    /\ ingested' = Append(ingested, decision)
    /\ UNCHANGED <<phase, startedEmpty>>
    /\ NotARead
    /\ UNCHANGED <<clientVars, transportVars, proxyVars, concVars>>

add_trade(trade) ==
    /\ phase = "serving"
    /\ Len(gtrader_state.trade_history) < MaxTrades
    /\ gtrader_state' =
          [gtrader_state EXCEPT !.trade_history = InsertHead(gtrader_state.trade_history, trade)]
    /\ UNCHANGED <<phase, ingested, startedEmpty>>
    /\ NotARead
    /\ UNCHANGED <<clientVars, transportVars, proxyVars, concVars>>

UpdateState == \E i \in DOMAIN StateDataInputs : update_state(StateDataInputs[i])

AddDecision == add_decision(Decision(Len(ingested) + 1))

AddTrade == \E a \in TradeAssets, s \in TradeStatuses : add_trade(Trade(a, s))

\* the query parameters of GET /trades
QueryAssets == {None, Some(""), Some("BTC"), Some("btc"), Some("ETH")}
QueryStatuses == {None, Some(""), Some("filled"), Some("cancelled")}
QueryLimits == {1, 50}

\* str.upper(), for the tickers of the model
Upper(s) == CASE s = "btc" -> "BTC" [] s = "eth" -> "ETH" [] OTHER -> s

\* [t for t in trades if t.get("asset") == asset.upper()]
FilterAsset(trades, asset) == SelectSeq(trades, LAMBDA t : t.asset = Upper(asset))

\* [t for t in trades if t.get("status") == status]
FilterStatus(trades, status) == SelectSeq(trades, LAMBDA t : t.status = status)

get_trade_history(limit, asset, status) ==
    LET trades0 == gtrader_state.trade_history
        trades1 == IF Truthy(asset) THEN FilterAsset(trades0, asset[1]) ELSE trades0
        trades2 == IF Truthy(status) THEN FilterStatus(trades1, status[1]) ELSE trades1
    IN  Slice(trades2, limit)

GetTradeHistory ==
    \E limit \in QueryLimits, asset \in QueryAssets, status \in QueryStatuses :
        /\ phase = "serving"
        /\ trades_query' = Some([limit |-> limit, asset |-> asset, status |-> status])
        /\ trades_response' = Some(get_trade_history(limit, asset, status))
        /\ UNCHANGED <<gatewayVars, clientVars, transportVars, proxyVars, concVars>>

(***************************************************************************)
(* Request builders (myriad_client.py)                                     *)
(***************************************************************************)
\* the arguments the builders are called with
MarketIds == {None, Some(0), Some(7)}
Slugs == {None, Some(""), Some("btc-100k")}
NetworkIds == {None, Some(2741)}
OutcomeIds == {0, 1}
Actions == {"buy", "sell", "hold"}
Values == {None, Some(0), Some(100)}
ShareCounts == {None, Some(0), Some(5)}
Slippages == {"0.005"}
Timestamps == {None, Some(1700000000)}

\* str(n) inside an f-string, for the integers of the model
Str(n) == CASE n = 0 -> "0" [] n = 7 -> "7" [] OTHER -> "n"

\* d[k] = v on a dict
DictSet(d, k, v) == [x \in DOMAIN d \cup {k} |-> IF x = k THEN v ELSE d[x]]

\* d[k] = v if v is not None
DictSetOpt(d, k, v) == IF v /= None THEN DictSet(d, k, v[1]) ELSE d

Raise(msg) == [kind |-> "ValueError", msg |-> msg]
Request(method, endpoint, params, json) ==
    [kind |-> "request", method |-> method, endpoint |-> endpoint,
     params |-> params, json |-> json]

ErrMarket == "Must provide either slug or (market_id + network_id)"
ErrEvents == "Must provide either slug or market_id"
ErrQuoteAddressing == "Must provide either market_slug or (market_id + network_id)"
ErrBuyValue == "For buy action, 'value' is required"
ErrSellSize == "For sell action, either 'value' or 'shares' is required"
ErrAction == "Action must be 'buy' or 'sell'"

\* what a builder does: the ValueError it raises, or the request it hands to _make_request
\* mutant: the id branch does not ask for network_id
get_market_id_alone(market_id, slug, network_id) ==
    IF Truthy(slug)
       THEN Request("GET", <<"markets", slug[1]>>, None, None)
    ELSE IF market_id /= None
       THEN Request("GET", <<"markets", Str(market_id[1])>>,
                    DictSetOpt(None, "network_id", network_id), None)
    ELSE Raise(ErrMarket)

get_market(market_id, slug, network_id) ==
    IF Truthy(slug)
       THEN Request("GET", <<"markets", slug[1]>>, None, None)
    ELSE IF market_id /= None /\ network_id /= None
       THEN Request("GET", <<"markets", Str(market_id[1])>>,
                    Some([network_id |-> network_id[1]]), None)
    ELSE Raise(ErrMarket)

get_market_events(market_id, slug, network_id, page, limit, since, until) ==
    LET params == DictSetOpt(DictSetOpt(DictSetOpt([page |-> page, limit |-> limit],
                      "since", since), "until", until), "network_id", network_id)
    IN  IF Truthy(slug)
           THEN Request("GET", <<"markets", slug[1], "events">>, Some(params), None)
        ELSE IF market_id /= None
           THEN Request("GET", <<"markets", Str(market_id[1]), "events">>, Some(params), None)
        ELSE Raise(ErrEvents)

get_market_holders(market_id, slug, network_id, page, limit) ==
    LET params == DictSetOpt([page |-> page, limit |-> limit], "network_id", network_id)
    IN  IF Truthy(slug)
           THEN Request("GET", <<"markets", slug[1], "holders">>, Some(params), None)
        ELSE IF market_id /= None
           THEN Request("GET", <<"markets", Str(market_id[1]), "holders">>, Some(params), None)
        ELSE Raise(ErrEvents)

\* mutant: a buy without value is sent as it is
quote_body_buy_unchecked(body0, outcome_id, action, value, shares, slippage) ==
    LET body == DictSet(DictSet(DictSet(body0, "outcome_id", outcome_id),
                                "action", action), "slippage", slippage)
    IN  IF action = "buy"
           THEN Request("POST", <<"markets", "quote">>, None,
                        Some(DictSetOpt(body, "value", value)))
        ELSE IF action = "sell"
           THEN IF value = None /\ shares = None
                   THEN Raise(ErrSellSize)
                ELSE IF value /= None
                   THEN Request("POST", <<"markets", "quote">>, None,
                                Some(DictSet(body, "value", value[1])))
                ELSE Request("POST", <<"markets", "quote">>, None,
                             Some(DictSet(body, "shares", shares[1])))
        ELSE Raise(ErrAction)

\* mutant: a sell without value and shares is sent as it is
quote_body_sell_unchecked(body0, outcome_id, action, value, shares, slippage) ==
    LET body == DictSet(DictSet(DictSet(body0, "outcome_id", outcome_id),
                                "action", action), "slippage", slippage)
    IN  IF action = "buy"
           THEN IF value = None
                   THEN Raise(ErrBuyValue)
                   ELSE Request("POST", <<"markets", "quote">>, None,
                                Some(DictSet(body, "value", value[1])))
        ELSE IF action = "sell"
           THEN IF value /= None
                   THEN Request("POST", <<"markets", "quote">>, None,
                                Some(DictSet(body, "value", value[1])))
                ELSE Request("POST", <<"markets", "quote">>, None,
                             Some(DictSetOpt(body, "shares", shares)))
        ELSE Raise(ErrAction)

\* mutant: a sell copies value and shares independently ("if" for "elif")
quote_body_sell_both(body0, outcome_id, action, value, shares, slippage) ==
    LET body == DictSet(DictSet(DictSet(body0, "outcome_id", outcome_id),
                                "action", action), "slippage", slippage)
    IN  IF action = "buy"
           THEN IF value = None
                   THEN Raise(ErrBuyValue)
                   ELSE Request("POST", <<"markets", "quote">>, None,
                                Some(DictSet(body, "value", value[1])))
        ELSE IF action = "sell"
           THEN IF value = None /\ shares = None
                   THEN Raise(ErrSellSize)
                   ELSE Request("POST", <<"markets", "quote">>, None,
                                Some(DictSetOpt(DictSetOpt(body, "value", value),
                                                "shares", shares)))
        ELSE Raise(ErrAction)

\* lines 326-345: the body once the addressing mode has been resolved
quote_body(body0, outcome_id, action, value, shares, slippage) ==
    LET body == DictSet(DictSet(DictSet(body0, "outcome_id", outcome_id),
                                "action", action), "slippage", slippage)
    IN  IF action = "buy"
           THEN IF value = None
                   THEN Raise(ErrBuyValue)
                   ELSE Request("POST", <<"markets", "quote">>, None,
                                Some(DictSet(body, "value", value[1])))
        ELSE IF action = "sell"
           THEN IF value = None /\ shares = None
                   THEN Raise(ErrSellSize)
                ELSE IF value /= None
                   THEN Request("POST", <<"markets", "quote">>, None,
                                Some(DictSet(body, "value", value[1])))
                ELSE IF shares /= None
                   THEN Request("POST", <<"markets", "quote">>, None,
                                Some(DictSet(body, "shares", shares[1])))
                ELSE Request("POST", <<"markets", "quote">>, None, Some(body))
        ELSE Raise(ErrAction)

\* mutant: the body carries every identifier the caller gave
get_market_quote_all_ids(outcome_id, action, market_id, market_slug, network_id, value, shares, slippage) ==
    IF Truthy(market_slug) \/ (market_id /= None /\ network_id /= None)
       THEN quote_body(DictSetOpt(DictSetOpt(
                           IF Truthy(market_slug) THEN [market_slug |-> market_slug[1]] ELSE None,
                           "market_id", market_id), "network_id", network_id),
                       outcome_id, action, value, shares, slippage)
    ELSE Raise(ErrQuoteAddressing)

\* mutant: the action and the size are checked before the addressing
get_market_quote_size_first(outcome_id, action, market_id, market_slug, network_id, value, shares, slippage) ==
    LET checked == quote_body([market_slug |-> ""], outcome_id, action, value, shares, slippage)
    IN  IF checked.kind = "ValueError" THEN checked
        ELSE IF Truthy(market_slug)
           THEN quote_body([market_slug |-> market_slug[1]],
                           outcome_id, action, value, shares, slippage)
        ELSE IF market_id /= None /\ network_id /= None
           THEN quote_body([market_id |-> market_id[1], network_id |-> network_id[1]],
                           outcome_id, action, value, shares, slippage)
        ELSE Raise(ErrQuoteAddressing)

get_market_quote(outcome_id, action, market_id, market_slug, network_id, value, shares, slippage) ==
    IF Truthy(market_slug)
       THEN quote_body([market_slug |-> market_slug[1]],
                       outcome_id, action, value, shares, slippage)
    ELSE IF market_id /= None /\ network_id /= None
       THEN quote_body([market_id |-> market_id[1], network_id |-> network_id[1]],
                       outcome_id, action, value, shares, slippage)
    ELSE Raise(ErrQuoteAddressing)

\* builders without argument checks (lines 149-190, 386-421)
get_markets(page, limit, sort, order, network_id, state, keyword) ==
    LET params == DictSetOpt(DictSetOpt(DictSetOpt(
                      [page |-> page, limit |-> limit, sort |-> sort, order |-> order],
                      "network_id", network_id),
                      "state", IF Truthy(state) THEN state ELSE None),
                      "keyword", IF Truthy(keyword) THEN keyword ELSE None)
    IN  Request("GET", <<"markets">>, Some(params), None)

get_user_portfolio(address, page, limit, network_id) ==
    LET params == DictSetOpt([page |-> page, limit |-> limit], "network_id", network_id)
    IN  Request("GET", <<"users", address, "portfolio">>, Some(params), None)

\* what _make_request gives back to a builder: the parsed JSON, or the RequestException it re-raises
TransportOutcomes == {"json", "RequestException"}

\* the end of a builder: raise before any request, or return self._make_request(...)
Dispatch(r) ==
    IF r.kind = "ValueError"
       THEN /\ sent' = <<>>
            /\ outcome' = r
       ELSE /\ sent' = <<r>>
            /\ \E up \in TransportOutcomes : outcome' = [kind |-> up]

GetMarket ==
    \E market_id \in MarketIds, slug \in Slugs, network_id \in NetworkIds :
        /\ call' = [op |-> "get_market", market_id |-> market_id, slug |-> slug,
                    network_id |-> network_id]
        /\ Dispatch(get_market(market_id, slug, network_id))
        /\ UNCHANGED <<gatewayVars, transportVars, readVars, proxyVars, concVars>>

GetMarketEvents ==
    \E market_id \in MarketIds, slug \in Slugs, network_id \in NetworkIds,
       since \in Timestamps, until \in Timestamps :
        /\ call' = [op |-> "get_market_events", market_id |-> market_id, slug |-> slug,
                    network_id |-> network_id, since |-> since, until |-> until]
        /\ Dispatch(get_market_events(market_id, slug, network_id, 1, 50, since, until))
        /\ UNCHANGED <<gatewayVars, transportVars, readVars, proxyVars, concVars>>

GetMarketHolders ==
    \E market_id \in MarketIds, slug \in Slugs, network_id \in NetworkIds :
        /\ call' = [op |-> "get_market_holders", market_id |-> market_id, slug |-> slug,
                    network_id |-> network_id]
        /\ Dispatch(get_market_holders(market_id, slug, network_id, 1, 50))
        /\ UNCHANGED <<gatewayVars, transportVars, readVars, proxyVars, concVars>>

GetMarketQuote ==
    \E outcome_id \in OutcomeIds, action \in Actions, market_id \in MarketIds,
       market_slug \in Slugs, network_id \in NetworkIds, value \in Values,
       shares \in ShareCounts, slippage \in Slippages :
        /\ call' = [op |-> "get_market_quote", outcome_id |-> outcome_id, action |-> action,
                    market_id |-> market_id, market_slug |-> market_slug,
                    network_id |-> network_id, value |-> value, shares |-> shares,
                    slippage |-> slippage]
        /\ Dispatch(get_market_quote(outcome_id, action, market_id, market_slug,
                                     network_id, value, shares, slippage))
        /\ UNCHANGED <<gatewayVars, transportVars, readVars, proxyVars, concVars>>

(***************************************************************************)
(* Transport (myriad_client.py: the session's Retry policy, _make_request) *)
(* The retry loop is urllib3's, driven by the Retry the client configures: *)
(* a response is retried when Retry.is_retry accepts it and the decrement  *)
(* of Retry.total does not exhaust it.                                     *)
(***************************************************************************)
RetryTotal == 3
StatusForcelist == {429, 500, 502, 503, 504}
AllowedMethods == {"GET", "POST"}
\* left at the library's defaults by Retry(...): respect_retry_after_header,
\* RETRY_AFTER_STATUS_CODES, raise_on_status
RespectRetryAfterHeader == TRUE
RetryAfterStatusCodes == {413, 429, 503}
RaiseOnStatus == TRUE

\* what the upstream may answer to one attempt; status 0 stands for no answer
\* (connection failure or timeout)
UpstreamStatuses == {200, 404, 413, 429, 500, 502, 503, 504}
NoAnswer == 0
Response(status, retry_after, n) == [status |-> status, retry_after |-> retry_after, body |-> n]

\* Retry.is_retry(method, status_code, has_retry_after)
is_retry(method, status_code, has_retry_after, total) ==
    IF method \notin AllowedMethods THEN FALSE
    ELSE IF status_code \in StatusForcelist THEN TRUE
    ELSE /\ total /= 0
         /\ RespectRetryAfterHeader
         /\ has_retry_after
         /\ status_code \in RetryAfterStatusCodes

\* mutant: gives up when the budget reaches zero
is_exhausted_at_zero(total) == total <= 0

\* Retry.is_exhausted() of the Retry that increment() produced
is_exhausted(total) == total < 0

\* response.raise_for_status()
IsHTTPError(status) == 400 <= status /\ status < 600

make_request(method) ==
    /\ t_state \in {"idle", "returned", "raised"}
    /\ t_state' = "inflight"
    /\ t_method' = method
    /\ t_total' = RetryTotal
    /\ t_log' = <<>>
    /\ t_result' = [kind |-> "none"]
    /\ UNCHANGED <<gatewayVars, clientVars, readVars, concVars>>

\* one attempt of session.request: the upstream answers, the Retry decides
attempt(resp) ==
    /\ t_state = "inflight"
    /\ t_log' = Append(t_log, resp)
    /\ IF resp.status = NoAnswer
          THEN IF is_exhausted(t_total - 1)
                  THEN /\ t_state' = "raised"
                       /\ t_result' = [kind |-> "ConnectionError"]
                       /\ t_total' = t_total - 1
                  ELSE /\ t_state' = "inflight"
                       /\ t_total' = t_total - 1
                       /\ UNCHANGED t_result
       ELSE IF is_retry(t_method, resp.status, resp.retry_after, t_total)
          THEN IF is_exhausted(t_total - 1)
                  THEN IF RaiseOnStatus
                          THEN /\ t_state' = "raised"
                               /\ t_result' = [kind |-> "RetryError"]
                               /\ t_total' = t_total - 1
                          ELSE /\ t_state' = IF IsHTTPError(resp.status) THEN "raised" ELSE "returned"
                               /\ t_result' = IF IsHTTPError(resp.status)
                                                 THEN [kind |-> "HTTPError", status |-> resp.status,
                                                       body |-> resp.body]
                                                 ELSE [kind |-> "json", body |-> resp.body]
                               /\ t_total' = t_total - 1
                  ELSE /\ t_state' = "inflight"
                       /\ t_total' = t_total - 1
                       /\ UNCHANGED t_result
       ELSE IF IsHTTPError(resp.status)
          THEN /\ t_state' = "raised"
               /\ t_result' = [kind |-> "HTTPError", status |-> resp.status, body |-> resp.body]
               /\ UNCHANGED t_total
       ELSE /\ t_state' = "returned"
            /\ t_result' = [kind |-> "json", body |-> resp.body]
            /\ UNCHANGED t_total
    /\ UNCHANGED t_method
    /\ UNCHANGED <<gatewayVars, clientVars, readVars, concVars>>

MakeRequest ==
    /\ \E method \in AllowedMethods : make_request(method)
    /\ UNCHANGED proxyVars

\* the upstream answers the attempt in flight
Answer ==
    \/ \E status \in UpstreamStatuses, retry_after \in BOOLEAN :
          attempt(Response(status, retry_after, Len(t_log) + 1))
    \/ attempt(Response(NoAnswer, FALSE, 0))

Attempt ==
    /\ Answer
    /\ UNCHANGED proxyVars

(***************************************************************************)
(* Proxy endpoints of the gateway (api.py: /myriad/...)                    *)
(* A handler calls the client inside try/except Exception and answers with *)
(* the client's result or with an HTTPException.                           *)
(***************************************************************************)
\* the requests the proxy endpoints are called with
ProxyRequests ==
    << [endpoint |-> "markets", network_id |-> Some(2741), state |-> Some("open"),
        keyword |-> None, page |-> 1, limit |-> 20],
       [endpoint |-> "market", market_id |-> 7, network_id |-> 2741],
       [endpoint |-> "quote", market_id |-> None, market_slug |-> Some("btc-100k"),
        network_id |-> None, outcome_id |-> 0, action |-> "buy", value |-> Some(100),
        shares |-> None, slippage |-> "0.005"],
       [endpoint |-> "quote", market_id |-> Some(7), market_slug |-> None,
        network_id |-> Some(2741), outcome_id |-> 1, action |-> "buy", value |-> None,
        shares |-> Some(5), slippage |-> "0.005"],
       [endpoint |-> "quote", market_id |-> Some(7), market_slug |-> None,
        network_id |-> None, outcome_id |-> 1, action |-> "sell", value |-> None,
        shares |-> Some(5), slippage |-> "0.005"],
       [endpoint |-> "portfolio", address |-> "0xabc", network_id |-> None,
        page |-> 1, limit |-> 20] >>

\* the client call inside the handler's try block
ClientCall(req) ==
    CASE req.endpoint = "markets" ->
            get_markets(req.page, req.limit, "volume", "desc", req.network_id,
                        req.state, req.keyword)
      [] req.endpoint = "market" ->
            get_market(Some(req.market_id), None, Some(req.network_id))
      [] req.endpoint = "quote" ->
            get_market_quote(req.outcome_id, req.action, req.market_id, req.market_slug,
                             req.network_id, req.value, req.shares, req.slippage)
      [] OTHER ->
            get_user_portfolio(req.address, req.page, req.limit, req.network_id)

\* the status_code of the handler's "except Exception" branch
ExceptStatus(endpoint) == IF endpoint = "quote" THEN 400 ELSE 500

\* raise HTTPException(status_code=..., detail=str(e))
HTTPException(status, e) == [status |-> status, detail |-> e]

\* the handler returns what the client returned
Returned(body) == [status |-> 200, body |-> body]

\* the handler is entered: the client's builder raises, or hands its request
\* to the transport
proxy_call(req) ==
    /\ p_state \in {"idle", "responded"}
    /\ p_request' = Some(req)
    /\ LET r == ClientCall(req)
       IN  IF r.kind = "ValueError"
              THEN /\ p_state' = "responded"
                   /\ p_failure' = Some(r)
                   /\ p_response' = Some(HTTPException(ExceptStatus(req.endpoint), r))
                   /\ UNCHANGED <<gatewayVars, clientVars, transportVars, readVars, concVars>>
              ELSE /\ p_state' = "awaiting"
                   /\ p_failure' = None
                   /\ p_response' = None
                   /\ make_request(r.method)

\* mutant: a failure of the client is logged and an empty result returned
proxy_respond_swallow ==
    /\ p_state = "awaiting"
    /\ t_state \in {"returned", "raised"}
    /\ p_state' = "responded"
    /\ IF t_state = "raised"
          THEN /\ p_failure' = Some(t_result)
               /\ p_response' = Some(Returned(0))
          ELSE /\ p_failure' = None
               /\ p_response' = Some(Returned(t_result.body))
    /\ UNCHANGED p_request
    /\ UNCHANGED <<gatewayVars, clientVars, transportVars, readVars, concVars>>

\* _make_request has returned or raised: the handler returns or maps the exception
proxy_respond ==
    /\ p_state = "awaiting"
    /\ t_state \in {"returned", "raised"}
    /\ p_state' = "responded"
    /\ IF t_state = "raised"
          THEN /\ p_failure' = Some(t_result)
               /\ p_response' = Some(HTTPException(ExceptStatus(p_request[1].endpoint), t_result))
          ELSE /\ p_failure' = None
               /\ p_response' = Some(Returned(t_result.body))
    /\ UNCHANGED p_request
    /\ UNCHANGED <<gatewayVars, clientVars, transportVars, readVars, concVars>>

ProxyCall == \E i \in DOMAIN ProxyRequests : proxy_call(ProxyRequests[i])

ProxyRespond == proxy_respond

(***************************************************************************)
(* Concurrent ingest requests (api.py: the async handlers on one event     *)
(* loop).  A handler is modelled statement by statement; the event loop    *)
(* runs another handler only where the running one awaits or returns, and  *)
(* the bodies of the ingest handlers contain no await.                     *)
(***************************************************************************)
\* reversed(s)
Reverse(s) == [i \in 1..Len(s) |-> s[Len(s) + 1 - i]]

\* the decisions ingested, one call after the other, before the concurrent requests arrive
Prefilled(n) == [i \in 1..n |-> Decision(i)]

\* the bodies of the trades posted concurrently, all different
DistinctTrades ==
    << Trade("BTC", "filled"), Trade("ETH", "filled"), Trade("BTC", "cancelled"),
       Trade("ETH", "cancelled"), Trade("btc", "filled"), Trade("btc", "cancelled") >>

\* the requests that may arrive as the next one
Arrivals ==
    LET n == Len(inflight) + 1
    IN  {[kind |-> "add_decision", arg |-> Decision(RecentLimit + n)],
         [kind |-> "add_trade", arg |-> DistinctTrades[n]]}
        \cup {[kind |-> "update_state", arg |-> i] : i \in DOMAIN StateDataInputs}

\* a request is received and parsed; its handler is ready to run
Receive ==
    /\ phase = "serving"
    /\ Len(inflight) < MaxRequests
    /\ \E a \in Arrivals :
          inflight' = Append(inflight, [kind |-> a.kind, arg |-> a.arg, pc |-> "ready"])
    /\ UNCHANGED <<loop, traded>>
    /\ UNCHANGED <<gatewayVars, clientVars, transportVars, readVars, proxyVars>>

\* the event loop starts the handler of r
CanStart(r, kind) ==
    /\ loop = 0
    /\ inflight[r].kind = kind
    /\ inflight[r].pc = "ready"

\* the handler of r goes on after the statement at pc
CanResume(r, kind, pc) ==
    /\ loop \in {0, r}
    /\ inflight[r].kind = kind
    /\ inflight[r].pc = pc

\* mutant: the handler awaits between the insert and the truncation
add_decision_insert_await(r) ==
    /\ CanStart(r, "add_decision")
    /\ gtrader_state' =
          [gtrader_state EXCEPT !.recent_decisions =
              InsertHead(gtrader_state.recent_decisions, inflight[r].arg)]
    /\ ingested' = Append(ingested, inflight[r].arg)
    /\ inflight' = [inflight EXCEPT ![r].pc = "truncate"]
    /\ loop' = 0
    /\ UNCHANGED <<phase, startedEmpty, traded>>
    /\ UNCHANGED <<clientVars, transportVars, readVars, proxyVars>>

\* add_decision, line 455: recent_decisions.insert(0, decision.dict())
add_decision_insert(r) ==
    /\ CanStart(r, "add_decision")
    /\ gtrader_state' =
          [gtrader_state EXCEPT !.recent_decisions =
              InsertHead(gtrader_state.recent_decisions, inflight[r].arg)]
    /\ ingested' = Append(ingested, inflight[r].arg)
    /\ inflight' = [inflight EXCEPT ![r].pc = "truncate"]
    /\ loop' = r
    /\ UNCHANGED <<phase, startedEmpty, traded>>
    /\ UNCHANGED <<clientVars, transportVars, readVars, proxyVars>>

\* add_decision, lines 457-458: recent_decisions = recent_decisions[:100]; return
add_decision_truncate(r) ==
    /\ CanResume(r, "add_decision", "truncate")
    /\ gtrader_state' =
          [gtrader_state EXCEPT !.recent_decisions =
              Slice(gtrader_state.recent_decisions, RecentLimit)]
    /\ inflight' = [inflight EXCEPT ![r].pc = "done"]
    /\ loop' = 0
    /\ UNCHANGED <<phase, ingested, startedEmpty, traded>>
    /\ UNCHANGED <<clientVars, transportVars, readVars, proxyVars>>

\* add_trade, lines 467-468: trade_history.insert(0, trade.dict()); return
add_trade_insert(r) ==
    /\ CanStart(r, "add_trade")
    /\ gtrader_state' =
          [gtrader_state EXCEPT !.trade_history =
              InsertHead(gtrader_state.trade_history, inflight[r].arg)]
    /\ traded' = Append(traded, inflight[r].arg)
    /\ inflight' = [inflight EXCEPT ![r].pc = "done"]
    /\ loop' = 0
    /\ UNCHANGED <<phase, ingested, startedEmpty>>
    /\ UNCHANGED <<clientVars, transportVars, readVars, proxyVars>>

\* update_state, line 444: gtrader_state.update(state_data)
update_state_update(r) ==
    /\ CanStart(r, "update_state")
    /\ LET state_data == StateDataInputs[inflight[r].arg]
       IN  /\ gtrader_state' = DictUpdate(gtrader_state, state_data)
           /\ IF "recent_decisions" \in DOMAIN state_data
                 THEN /\ ingested' = <<>>
                      /\ startedEmpty' = (state_data.recent_decisions = <<>>)
                 ELSE UNCHANGED <<ingested, startedEmpty>>
           /\ IF "trade_history" \in DOMAIN state_data
                 THEN traded' = Reverse(state_data.trade_history)
                 ELSE UNCHANGED traded
    /\ inflight' = [inflight EXCEPT ![r].pc = "stamp"]
    /\ loop' = r
    /\ UNCHANGED phase
    /\ UNCHANGED <<clientVars, transportVars, readVars, proxyVars>>

\* update_state, lines 445-446: last_update = utcnow().isoformat(); return
update_state_stamp(r) ==
    /\ CanResume(r, "update_state", "stamp")
    /\ gtrader_state' = [gtrader_state EXCEPT !.last_update = Some(utcnow)]
    /\ inflight' = [inflight EXCEPT ![r].pc = "done"]
    /\ loop' = 0
    /\ UNCHANGED <<phase, ingested, startedEmpty, traded>>
    /\ UNCHANGED <<clientVars, transportVars, readVars, proxyVars>>

AddDecisionInsert == \E r \in DOMAIN inflight : add_decision_insert(r)
AddDecisionTruncate == \E r \in DOMAIN inflight : add_decision_truncate(r)
AddTradeInsert == \E r \in DOMAIN inflight : add_trade_insert(r)
UpdateStateUpdate == \E r \in DOMAIN inflight : update_state_update(r)
UpdateStateStamp == \E r \in DOMAIN inflight : update_state_stamp(r)

InitClientIdle ==
    /\ call = [op |-> "none"]
    /\ sent = <<>>
    /\ outcome = "none"

InitTransportIdle ==
    /\ t_state = "idle"
    /\ t_method = "GET"
    /\ t_total = 0
    /\ t_log = <<>>
    /\ t_result = [kind |-> "none"]

InitReadIdle ==
    /\ trades_query = None
    /\ trades_response = None

InitProxyIdle ==
    /\ p_state = "idle"
    /\ p_request = None
    /\ p_failure = None
    /\ p_response = None

InitNoneInflight ==
    /\ inflight = <<>>
    /\ loop = 0
    /\ traded = <<>>

Init ==
    /\ phase = "created"
    /\ gtrader_state = InitialState
    /\ ingested = <<>>
    /\ startedEmpty = TRUE
    /\ InitClientIdle
    /\ InitTransportIdle
    /\ InitReadIdle
    /\ InitProxyIdle
    /\ InitNoneInflight

Next ==
    \/ startup_event
    \/ shutdown_event
    \/ UpdateState
    \/ AddDecision
    \/ AddTrade

Spec == Init /\ [][Next]_vars

NextTrades ==
    \/ startup_event
    \/ shutdown_event
    \/ UpdateState
    \/ AddTrade
    \/ GetTradeHistory

SpecTrades == Init /\ [][NextTrades]_vars

NextProxy ==
    \/ ProxyCall
    \/ Attempt
    \/ ProxyRespond

SpecProxy == Init /\ [][NextProxy]_vars

\* the gateway is serving and has ingested, one call after the other, either
\* nothing yet or a full list of decisions
InitConcurrent ==
    /\ phase = "serving"
    /\ \E n \in {0, RecentLimit} :
          /\ ingested = Prefilled(n)
          /\ gtrader_state = [InitialState EXCEPT !.status = "running",
                                                  !.last_update = Some(utcnow),
                                                  !.recent_decisions = Reverse(Prefilled(n))]
    /\ startedEmpty = TRUE
    /\ InitClientIdle
    /\ InitTransportIdle
    /\ InitReadIdle
    /\ InitProxyIdle
    /\ InitNoneInflight

NextConcurrent ==
    \/ Receive
    \/ AddDecisionInsert
    \/ AddDecisionTruncate
    \/ AddTradeInsert
    \/ UpdateStateUpdate
    \/ UpdateStateStamp

SpecConcurrent == InitConcurrent /\ [][NextConcurrent]_vars

NextClient ==
    \/ GetMarket
    \/ GetMarketEvents
    \/ GetMarketHolders
    \/ GetMarketQuote

SpecClient == Init /\ [][NextClient]_vars

NextTransport ==
    \/ MakeRequest
    \/ Attempt

SpecTransport == Init /\ [][NextTransport]_vars

(***************************************************************************)
(* Properties of the gateway snapshot (Spec)                               *)
(***************************************************************************)

\* C1: in every reachable state of the gateway, after any sequence of
\* update_state, add_decision and add_trade calls, recent_decisions has at
\* most 100 entries.
C1_RecentDecisionsAtMost100 == Len(gtrader_state.recent_decisions) <= 100

\* the n most recent of the decisions in ds, newest first
NewestFirst(ds, n) == [i \in 1..Min(n, Len(ds)) |-> ds[Len(ds) + 1 - i]]

\* C2: starting from an empty list, after n add_decision calls the list is
\* exactly the min(n, 100) most recently ingested decisions, newest first.
C2_NewestFirstWindow ==
    startedEmpty => gtrader_state.recent_decisions = NewestFirst(ingested, 100)

\* C2 witness: 105 decisions ingested into an empty list; d105..d6 remain.
C2_Evicted5Of105 ==
    /\ startedEmpty
    /\ Len(ingested) = 105
    /\ Len(gtrader_state.recent_decisions) = 100
    /\ gtrader_state.recent_decisions[1] = Decision(105)
    /\ gtrader_state.recent_decisions[100] = Decision(6)
    /\ \A i \in 1..5 : \A j \in 1..100 : gtrader_state.recent_decisions[j] /= Decision(i)

(***************************************************************************)
(* Properties of concurrent ingest requests (SpecConcurrent)               *)
(***************************************************************************)
\* C15: under any interleaving of concurrently handled ingest requests each
\* handler's mutation is one atomic step: no handler is inside its body
\* while another runs, and in every state another request can observe, the
\* trade history holds every trade inserted and the recent decisions are the
\* min(k, 100) most recently applied ones, at most 100.
C15_HandlersAtomic ==
    /\ \A r \in DOMAIN inflight : inflight[r].pc \notin {"ready", "done"} => loop = r
    /\ loop = 0 =>
          /\ gtrader_state.trade_history = [i \in 1..Len(traded) |-> traded[Len(traded) + 1 - i]]
          /\ \A r \in DOMAIN inflight :
                (inflight[r].kind = "add_trade" /\ inflight[r].pc = "done"
                   /\ \A u \in DOMAIN inflight : inflight[u].kind /= "update_state")
                    => \E i \in DOMAIN gtrader_state.trade_history :
                          gtrader_state.trade_history[i] = inflight[r].arg
          /\ startedEmpty =>
                /\ Len(gtrader_state.recent_decisions) <= 100
                /\ gtrader_state.recent_decisions = NewestFirst(ingested, 100)

\* C15 witness: with a full list and a request still waiting, a later trade
\* and a later decision were applied; the trade is there, the decision is at
\* the head and the list has 100 entries.
C15_AppliedWhileAnotherWaits ==
    /\ loop = 0
    /\ Len(inflight) = 3
    /\ inflight[1].kind = "add_decision" /\ inflight[1].pc = "ready"
    /\ inflight[2].kind = "add_trade" /\ inflight[2].pc = "done"
    /\ inflight[3].kind = "add_decision" /\ inflight[3].pc = "done"
    /\ gtrader_state.trade_history = <<inflight[2].arg>>
    /\ Len(ingested) = 101
    /\ Len(gtrader_state.recent_decisions) = 100
    /\ gtrader_state.recent_decisions[1] = inflight[3].arg
    /\ gtrader_state.recent_decisions[100] = Decision(2)

(***************************************************************************)
(* Properties of the read endpoints (SpecTrades)                           *)
(***************************************************************************)
\* the entries of the trade history matching both filters of the query, the
\* tickers compared ignoring case
MatchingBoth(q) ==
    SelectSeq(gtrader_state.trade_history,
              LAMBDA t : Upper(t.asset) = Upper(q.asset[1]) /\ t.status = q.status[1])

\* C11: GET /trades with both filters returns the newest-first prefix, of
\* at most limit entries, of the trades whose ticker equals the asset of the
\* query ignoring case and whose status equals the status of the query.
C11_BothFiltersIgnoringCase ==
    (trades_query /= None /\ Truthy(trades_query[1].asset) /\ Truthy(trades_query[1].status))
        => trades_response[1] =
              SubSeq(MatchingBoth(trades_query[1]), 1,
                     Min(trades_query[1].limit, Len(MatchingBoth(trades_query[1]))))

(***************************************************************************)
(* Properties of the request builders (SpecClient)                         *)
(***************************************************************************)
IsQuote == call.op = "get_market_quote"

\* the addressing of the call is satisfiable: a slug, or market_id with network_id
QuoteAddressed ==
    \/ call.market_slug \notin {None, Some("")}
    \/ call.market_id /= None /\ call.network_id /= None

\* the JSON body of the request the call handed to the transport
SentBody == sent[1].json[1]

\* C3: a quote request with action "buy" and no value fails with a
\* validation error and no transport call is made.
C3_BuyWithoutValueFails ==
    (IsQuote /\ call.action = "buy" /\ call.value = None)
        => (outcome.kind = "ValueError" /\ sent = <<>>)

\* C3 witness: an addressed buy without value was rejected for its missing value.
C3_BuyWithoutValueRejected ==
    /\ IsQuote /\ call.action = "buy" /\ call.value = None /\ call.shares /= None
    /\ QuoteAddressed
    /\ outcome = Raise(ErrBuyValue)
    /\ sent = <<>>

\* C4: a quote request with action "sell", no value and no shares fails
\* with a validation error and no transport call is made.
C4_SellWithoutSizeFails ==
    (IsQuote /\ call.action = "sell" /\ call.value = None /\ call.shares = None)
        => (outcome.kind = "ValueError" /\ sent = <<>>)

\* C4 witness: an addressed sell without value and shares was rejected for it.
C4_SellWithoutSizeRejected ==
    /\ IsQuote /\ call.action = "sell" /\ call.value = None /\ call.shares = None
    /\ QuoteAddressed
    /\ outcome = Raise(ErrSellSize)
    /\ sent = <<>>

\* C5: an addressed sell with both value and shares transmits a body with
\* 'value' (the supplied value) and without 'shares'; every transmitted quote
\* body has exactly one of 'value' / 'shares', and a buy body never has 'shares'.
C5_ValueBeforeShares ==
    IsQuote =>
        /\ (call.action = "sell" /\ call.value /= None /\ call.shares /= None /\ QuoteAddressed)
              => /\ Len(sent) = 1
                 /\ "value" \in DOMAIN SentBody
                 /\ SentBody.value = call.value[1]
                 /\ "shares" \notin DOMAIN SentBody
        /\ sent /= <<>>
              => /\ ("value" \in DOMAIN SentBody) /= ("shares" \in DOMAIN SentBody)
                 /\ call.action = "buy" => "shares" \notin DOMAIN SentBody

\* C5 witness: a sell with value 0 and shares 5 was transmitted with value 0 only.
C5_SellBothSentValue ==
    /\ IsQuote /\ call.action = "sell"
    /\ call.value = Some(0) /\ call.shares = Some(5)
    /\ Len(sent) = 1
    /\ SentBody.value = 0
    /\ "shares" \notin DOMAIN SentBody

\* the caller gave a slug and also market_id with network_id
BothAddressings(slug) ==
    /\ slug \notin {None, Some("")}
    /\ call.market_id /= None
    /\ call.network_id /= None

\* C6: with both a slug and (market_id, network_id) the request is accepted
\* and the slug wins: get_market asks for /markets/{slug} without a
\* network_id parameter, get_market_quote transmits market_slug and neither
\* market_id nor network_id; no quote body has both market_slug and market_id.
C6_SlugPrecedence ==
    /\ (call.op = "get_market" /\ BothAddressings(call.slug))
          => /\ Len(sent) = 1
             /\ sent[1].method = "GET"
             /\ sent[1].endpoint = <<"markets", call.slug[1]>>
             /\ sent[1].params = None
    /\ (IsQuote /\ BothAddressings(call.market_slug))
          => /\ outcome /= Raise(ErrQuoteAddressing)
             /\ call.action \in {"buy", "sell"} /\ call.value /= None => Len(sent) = 1
             /\ sent /= <<>>
                   => /\ SentBody.market_slug = call.market_slug[1]
                      /\ "market_id" \notin DOMAIN SentBody
                      /\ "network_id" \notin DOMAIN SentBody
    /\ (IsQuote /\ sent /= <<>>)
          => ~ ("market_slug" \in DOMAIN SentBody /\ "market_id" \in DOMAIN SentBody)

\* C6 witness: a quote addressed by slug and by id was transmitted by slug.
C6_BothGivenSlugSent ==
    /\ IsQuote /\ BothAddressings(call.market_slug)
    /\ Len(sent) = 1
    /\ DOMAIN SentBody = {"market_slug", "outcome_id", "action", "slippage", "value"}

\* the addressing of a market call is not satisfiable
Unaddressed ==
    /\ call.slug \in {None, Some("")}
    /\ (call.market_id = None \/ call.network_id = None)

\* C7: get_market raises ValueError without a transport call whenever slug
\* is absent or empty and market_id or network_id is missing; in every other
\* case exactly one transport call is issued.
C7_GetMarketAddressing ==
    call.op = "get_market" =>
        IF Unaddressed
           THEN outcome.kind = "ValueError" /\ sent = <<>>
           ELSE outcome.kind /= "ValueError" /\ Len(sent) = 1

\* C7 witness: market_id given without network_id was rejected.
C7_IdWithoutNetworkRejected ==
    /\ call.op = "get_market"
    /\ call.slug = None /\ call.market_id = Some(7) /\ call.network_id = None
    /\ outcome = Raise(ErrMarket)
    /\ sent = <<>>

\* C8: get_market_events and get_market_holders enforce the addressing rule
\* of market lookup: without a slug and without both market_id and
\* network_id the call fails before any transport call is made.
C8_EventsHoldersAddressing ==
    (call.op \in {"get_market_events", "get_market_holders"} /\ Unaddressed)
        => (outcome.kind = "ValueError" /\ sent = <<>>)

\* the error the three checks of a quote give in the order addressing, action,
\* size, or None when the request passes all of them
QuoteCheck ==
    IF ~ QuoteAddressed THEN Some(ErrQuoteAddressing)
    ELSE IF call.action \notin {"buy", "sell"} THEN Some(ErrAction)
    ELSE IF call.action = "buy" /\ call.value = None THEN Some(ErrBuyValue)
    ELSE IF call.action = "sell" /\ call.value = None /\ call.shares = None THEN Some(ErrSellSize)
    ELSE None

\* C14: get_market_quote validates addressing, then action, then size: an
\* unaddressed request gets the addressing error whatever the rest, an
\* addressed one with a bad action the action error whatever value and
\* shares, and only then the size checks; a failing request makes no
\* transport call, a passing one makes the transport call.
C14_ValidationOrder ==
    IsQuote =>
        IF QuoteCheck /= None
           THEN outcome = Raise(QuoteCheck[1]) /\ sent = <<>>
           ELSE outcome.kind /= "ValueError" /\ Len(sent) = 1

\* C14 witness: an unaddressed request with a bad action and no size got the
\* addressing error.
C14_AddressingErrorFirst ==
    /\ IsQuote
    /\ ~ QuoteAddressed
    /\ call.action = "hold" /\ call.value = None /\ call.shares = None
    /\ outcome = Raise(ErrQuoteAddressing)
    /\ sent = <<>>

(***************************************************************************)
(* Properties of the proxy endpoints (SpecProxy)                           *)
(***************************************************************************)
\* C12: every failure the upstream client raises is answered with an HTTP
\* error: 500 by GET /myriad/markets, /myriad/markets/{market_id} and
\* /myriad/user/{address}/portfolio, 400 by POST /myriad/quote; no proxy
\* endpoint answers with success after a client failure.
C12_FailureMapsToHTTPError ==
    p_state = "responded" =>
        /\ p_failure /= None
              => /\ p_response[1].status =
                       (IF p_request[1].endpoint = "quote" THEN 400 ELSE 500)
                 /\ p_response[1].detail = p_failure[1]
        /\ p_response[1].status = 200 => p_failure = None
        /\ (p_failure = None) = (ClientCall(p_request[1]).kind = "request" /\ t_state = "returned")

\* C12 witness: a quote whose request the transport gave up on was answered 400.
C12_QuoteTransportFailure400 ==
    /\ p_state = "responded"
    /\ p_request[1].endpoint = "quote"
    /\ t_state = "raised"
    /\ p_failure = Some(t_result)
    /\ p_response[1].status = 400

\* the upstream answered every attempt with 429 or 5xx until the retry budget
\* was used up
TransientExhausted ==
    /\ t_state = "raised"
    /\ Len(t_log) = 4
    /\ \A i \in 1..4 : t_log[i].status \in {429} \cup (500..599)
    /\ t_result.kind = "RetryError"

\* C13: on every proxy endpoint, POST /myriad/quote included, an upstream
\* transient failure (429/5xx) lasting until the retry budget is used up is
\* answered with a 5xx HTTP error.
C13_TransientFailureIs5xx ==
    (p_state = "responded" /\ ClientCall(p_request[1]).kind = "request" /\ TransientExhausted)
        => p_response[1].status \in 500..599

(***************************************************************************)
(* Properties of the transport (SpecTransport)                             *)
(***************************************************************************)
\* the first n responses of the call all have the given status
FirstAre(n, status) ==
    /\ Len(t_log) >= n
    /\ \A i \in 1..n : t_log[i].status = status

\* C9: a transport call answered 503, 503, 503, 200 returns the 200 body;
\* a call answered 503 four times fails with the retry error, and no attempt
\* follows the fourth response.
C9_ThreeRetries ==
    /\ (FirstAre(3, 503) /\ Len(t_log) = 3) => t_state = "inflight"
    /\ (FirstAre(3, 503) /\ Len(t_log) >= 4 /\ t_log[4].status = 200)
          => /\ Len(t_log) = 4
             /\ t_state = "returned"
             /\ t_result = [kind |-> "json", body |-> t_log[4].body]
    /\ FirstAre(4, 503)
          => /\ Len(t_log) = 4
             /\ t_state = "raised"
             /\ t_result.kind = "RetryError"

\* C9 witness: 503, 503, 503, 200 received and the fourth body returned.
C9_SucceededOnFourth ==
    /\ FirstAre(3, 503)
    /\ Len(t_log) = 4 /\ t_log[4].status = 200
    /\ t_state = "returned"
    /\ t_result.body = 4

\* C10: an error response with a status outside {429, 500, 502, 503, 504}
\* (4xx other than 429) is never retried, the call fails at once with that
\* failure; only statuses in {429, 500, 502, 503, 504} cause another attempt.
C10_PermanentFailureNotRetried ==
    \A i \in 1..Len(t_log) :
        /\ (t_log[i].status \in (400..499) \ {429})
              => /\ i = Len(t_log)
                 /\ t_state = "raised"
                 /\ t_result = [kind |-> "HTTPError", status |-> t_log[i].status,
                                body |-> t_log[i].body]
        /\ (i < Len(t_log) /\ t_log[i].status /= NoAnswer)
              => t_log[i].status \in {429, 500, 502, 503, 504}

====
